---------------------------- MODULE Spec2Model ----------------------------
(***************************************************************************)
(* Model of the Kaggle dataset importer (src/kaggle_import.py):            *)
(* the find-or-create resolvers built by db_atomic_search, their lru_cache *)
(* wrappers, get_datetime, and the batched transactional driver            *)
(* import_dataset, at the granularity of one SQL statement per step.       *)
(*                                                                         *)
(* Strings are tuples of characters (names, separators) or of lexical      *)
(* tokens (the period-boundary strings), so that splitting and parsing are *)
(* computed, not assumed.                                                  *)
(*                                                                         *)
(* The store is the PostgreSQL database behind one psycopg2 connection:    *)
(* `committed` is what every other session sees, `tx` is what the          *)
(* connection's open transaction sees.  Serial primary keys come from      *)
(* sequences, which a rollback does not rewind.                            *)
(***************************************************************************)
EXTENDS Integers, Sequences, FiniteSets, TLC

(***************************************************************************)
(* Bounds of the model.                                                    *)
(***************************************************************************)
\* longest input (number of source records) explored
MaxRows == 3
\* number of script executions (processes) explored, one after another
MaxRuns == 2
\* capacity of the place / target / missile caches; the code's 500
\* (lru_cache(maxsize=500)) scaled down so that eviction happens
LookupCacheMax == 2

(***************************************************************************)
(* Program constants.                                                      *)
(***************************************************************************)
\* @lru_cache(maxsize=1) on get_attack_id
AttackCacheMax == 1

\* the literal ' and ' of data_row[...].split(' and ')
Sep == <<" ", "a", "n", "d", " ">>

\* IMPORT_SOURCES_URL_PREFIX, as one character
UrlPrefix == <<"/">>

Kinds == {"attack", "place", "target", "missile"}

\* mutant: the target loop is written before the launch-place loop
LookupKindsTargetFirst == <<"target", "place", "missile">>

LookupKinds == <<"place", "target", "missile">>

Digits == {"0", "1", "2", "3", "4", "5", "6", "7", "8", "9"}

(***************************************************************************)
(* str.split(sep): scan left to right for the first occurrence of sep,     *)
(* emit what precedes it, continue after it.                               *)
(***************************************************************************)
StartsWith(s, p) ==
    /\ Len(s) >= Len(p)
    /\ \A i \in 1..Len(p) : s[i] = p[i]

RECURSIVE Find(_, _, _)
\* index of the first occurrence of p in s at or after position i, 0 if none
Find(s, p, i) ==
    IF i + Len(p) - 1 > Len(s) THEN 0
    ELSE IF StartsWith(SubSeq(s, i, Len(s)), p) THEN i
    ELSE Find(s, p, i + 1)

\* mutant: only the first separator splits (split(sep, 1))
SplitOnce(s, p) ==
    LET k == Find(s, p, 1)
    IN  IF k = 0 THEN <<s>>
        ELSE <<SubSeq(s, 1, k - 1), SubSeq(s, k + Len(p), Len(s))>>

RECURSIVE Split(_, _)
Split(s, p) ==
    LET k == Find(s, p, 1)
    IN  IF k = 0 THEN <<s>>
        ELSE <<SubSeq(s, 1, k - 1)>> \o Split(SubSeq(s, k + Len(p), Len(s)), p)

(***************************************************************************)
(* get_datetime.  A raw string is a tuple of tokens; the format is         *)
(* '%Y-%m-%d', extended by ' %H:%M' when the string contains a colon.      *)
(* strptime either yields a datetime or raises ValueError.                 *)
(***************************************************************************)
ValueError == [ok |-> FALSE]

DateTokens == {"2022-03-01", "2022-03-02"}
HourTokens == {"00", "14"}
MinuteTokens == {"00", "30"}

Contains(s, c) == \E i \in 1..Len(s) : s[i] = c

TokenValue(t) ==
    CASE t = "00" -> 0
      [] t = "14" -> 14
      [] t = "30" -> 30

strptime(raw, withTime) ==
    IF ~withTime
    THEN IF Len(raw) = 1 /\ raw[1] \in DateTokens
         THEN [ok |-> TRUE, date |-> raw[1], hour |-> 0, minute |-> 0]
         ELSE ValueError
    ELSE IF /\ Len(raw) = 5
            /\ raw[1] \in DateTokens
            /\ raw[2] = " "
            /\ raw[3] \in HourTokens
            /\ raw[4] = ":"
            /\ raw[5] \in MinuteTokens
         THEN [ok |-> TRUE, date |-> raw[1],
               hour |-> TokenValue(raw[3]), minute |-> TokenValue(raw[5])]
         ELSE ValueError

get_datetime(raw_str) == strptime(raw_str, Contains(raw_str, ":"))

(***************************************************************************)
(* The numeric columns units_launched / units_destroyed of attack_groups   *)
(* (main.py sums them) accept a text parameter only if it reads as a       *)
(* number.                                                                 *)
(***************************************************************************)
IsNumeric(s) == Len(s) > 0 /\ \A i \in 1..Len(s) : s[i] \in Digits

(***************************************************************************)
(* functools.lru_cache: a cache is a sequence of <<key, value>> entries,   *)
(* least recently used first.  The key of an entry is the natural key; the *)
(* connection, which lru_cache hashes with it, is the one connection the   *)
(* process opens.                                                          *)
(***************************************************************************)
CacheHas(c, key) == \E i \in 1..Len(c) : c[i][1] = key

CacheIndex(c, key) == CHOOSE i \in 1..Len(c) : c[i][1] = key

\* mutant: a hit returns the value of the oldest entry, whatever its key
CacheValueOfFirst(c, key) == c[1][2]

CacheValue(c, key) == c[CacheIndex(c, key)][2]

Remove(c, i) == SubSeq(c, 1, i - 1) \o SubSeq(c, i + 1, Len(c))

\* mutant: a hit leaves the order alone (first in, first out)
CacheNoTouch(c, key) == c

\* a hit moves the entry to the most-recently-used end
CacheTouch(c, key) ==
    LET i == CacheIndex(c, key) IN Append(Remove(c, i), c[i])

\* a miss stores the result, evicting the least recently used entry when full
CachePut(c, key, val, maxsize) ==
    IF Len(c) >= maxsize
    THEN Append(Tail(c), <<key, val>>)
    ELSE Append(c, <<key, val>>)

MaxSize(kind) == IF kind = "attack" THEN AttackCacheMax ELSE LookupCacheMax

(***************************************************************************)
(* Source records (rows of the csv.DictReader).                            *)
(***************************************************************************)
Str(c) == <<c>>

Join(a, b) == a \o Sep \o b

Day1 == <<"2022-03-01">>
Day1Midnight == <<"2022-03-01", " ", "00", ":", "00">>
Day2 == <<"2022-03-02">>
Day2Afternoon == <<"2022-03-02", " ", "14", ":", "30">>
Malformed == <<"01.03.2022">>

Row(ts, te, launched, place, target, model) ==
    [time_start |-> ts, time_end |-> te, source |-> <<"s">>,
     launched |-> launched, destroyed |-> <<"0">>,
     launch_place |-> place, target |-> target, model |-> model]

\* the records the inputs are drawn from
Records ==
    { Row(Day1, Day1, <<"1">>, Str("x"), Str("t"), Str("m")),
      Row(Day1Midnight, Day1, <<"2">>, Join(Str("x"), Str("y")),
          Str("t") \o Sep \o <<"a", "n", "d", " ", "u">>,
          Join(Str("m"), Str("m"))),
      Row(Day2Afternoon, Day2, <<"3">>, Str("z"), <<>>,
          Join(Str("m"), Join(Str("n"), Str("k")))),
      Row(Malformed, Day1, <<"4">>, Str("y"), Str("t"), Str("m")),
      Row(Day2Afternoon, Day2, <<"n", "a">>, Str("y"), Str("t"), Str("n")) }

RECURSIVE SeqsUpTo(_, _)
SeqsUpTo(S, n) ==
    IF n = 0 THEN {<<>>}
    ELSE LET shorter == SeqsUpTo(S, n - 1)
         IN  shorter \cup {Append(q, x) : q \in {p \in shorter : Len(p) = n - 1}, x \in S}

Inputs == SeqsUpTo(Records, MaxRows)

BlockSizes == 0..MaxRows

(***************************************************************************)
(* State.                                                                  *)
(***************************************************************************)
VARIABLES
    data_rows,   \* the source records of the run (the csv file)
    block_size,  \* import_dataset's block_size
    run,         \* number of the script execution (process)
    pc,          \* position of the process in import_dataset
    pos,         \* records consumed from data_iter so far
    taken,       \* records taken from the current islice
    i_block,     \* import_dataset's i_block
    n_rows,      \* import_dataset's n_rows
    data_row,    \* the record being processed
    attack_id,   \* import_dataset's attack_id
    group_id,    \* import_dataset's group_id
    field,       \* index in LookupKinds of the field whose names are processed
    names,       \* the split of that field
    idx,         \* index in names of the name being processed
    fk,          \* the identity the resolver returned for that name
    cache,       \* the lru_cache of each resolver
    committed,   \* the store's committed state
    tx,          \* the store as the connection's transaction sees it
    next_id,     \* the next value of each table's primary-key sequence
    output,      \* the lines printed: <<i_block, n_rows>>
    log,         \* what the run has done so far, in order (history)
    snap,        \* the committed store when the current chunk began (history)
    prev         \* how the previous run ended and what it left (history)

vars == <<data_rows, block_size, run, pc, pos, taken, i_block, n_rows, data_row,
          attack_id, group_id, field, names, idx, fk, cache, committed, tx,
          next_id, output, log, snap, prev>>

Tables == Kinds \cup {"group"}

EmptyStore ==
    [rows |-> [k \in Kinds |-> {}],
     groups |-> {},
     assoc |-> [k \in {"place", "target", "missile"} |-> <<>>]]

NoRow == [none |-> TRUE]

Event(ev, kind, key, id) ==
    [ev |-> ev, kind |-> kind, key |-> key, id |-> id, row |-> pos, block |-> i_block,
     group |-> group_id]

Init ==
    /\ data_rows \in Inputs
    /\ block_size \in BlockSizes
    /\ run = 1
    /\ pc = "loop"
    /\ pos = 0
    /\ taken = 0
    /\ i_block = 0
    /\ n_rows = 0
    /\ data_row = NoRow
    /\ attack_id = 0
    /\ group_id = 0
    /\ field = 0
    /\ names = <<>>
    /\ idx = 0
    /\ fk = 0
    /\ cache = [k \in Kinds |-> <<>>]
    /\ committed = EmptyStore
    /\ tx = EmptyStore
    /\ next_id = [t \in Tables |-> 1]
    /\ output = <<>>
    /\ log = <<>>
    /\ snap = EmptyStore
    /\ prev = [pc |-> "none", store |-> EmptyStore]

(***************************************************************************)
(* The SQL statements.                                                     *)
(***************************************************************************)
\* mutant: the search finds nothing (a WHERE clause that never matches)
SelectNothing(store, kind, key) == {}

\* SELECT pk FROM table WHERE <all columns equal> LIMIT 1: the keys of the
\* matching rows; with several matches the statement may return any of them
SelectPk(store, kind, key) == {r.id : r \in {q \in store.rows[kind] : q.key = key}}

\* INSERT INTO table (<columns>) VALUES (<values>) RETURNING pk
InsertRow(store, kind, id, key) ==
    [store EXCEPT !.rows[kind] = @ \cup {[id |-> id, key |-> key]}]

\* mutant: a fact group equal to an existing one is not inserted again
InsertGroupRowOnce(store, id, attack, launched, destroyed) ==
    IF \E g \in store.groups : /\ g.attack_id = attack
                               /\ g.units_launched = launched
                               /\ g.units_destroyed = destroyed
    THEN store
    ELSE [store EXCEPT !.groups = @ \cup {[id |-> id, attack_id |-> attack,
                                           units_launched |-> launched,
                                           units_destroyed |-> destroyed]}]

\* SQL_GROUPS_INSERT
InsertGroupRow(store, id, attack, launched, destroyed) ==
    [store EXCEPT !.groups = @ \cup {[id |-> id, attack_id |-> attack,
                                      units_launched |-> launched,
                                      units_destroyed |-> destroyed]}]

\* SQL_GROUP_PLACES_INSERT, SQL_GROUP_TARGETS_INSERT, SQL_GROUP_MISSILES_INSERT
InsertAssocRow(store, kind, group, id) ==
    [store EXCEPT !.assoc[kind] = Append(@, [group_id |-> group, fk |-> id])]

(***************************************************************************)
(* A resolver call: the lru_cache wrapper around db_searcher.  `ret` is    *)
(* the primary key returned, or 0 when the SELECT found no row and the     *)
(* INSERT is still to be executed.                                         *)
(***************************************************************************)
CachedCall(kind, key, ret) ==
    \/ /\ CacheHas(cache[kind], key)
       /\ ret = CacheValue(cache[kind], key)
       /\ cache' = [cache EXCEPT ![kind] = CacheTouch(@, key)]
       /\ log' = Append(log, Event("hit", kind, key, ret))
    \/ /\ ~CacheHas(cache[kind], key)
       /\ ret \in SelectPk(tx, kind, key)
       /\ cache' = [cache EXCEPT ![kind] = CachePut(@, key, ret, MaxSize(kind))]
       /\ log' = Append(log, Event("select", kind, key, ret))
    \/ /\ ~CacheHas(cache[kind], key)
       /\ SelectPk(tx, kind, key) = {}
       /\ ret = 0
       /\ cache' = cache
       /\ log' = Append(log, Event("select", kind, key, 0))

\* the INSERT branch of db_searcher, and the caching of its result
SearcherInsert(kind, key, ret) ==
    /\ ret = next_id[kind]
    /\ next_id' = [next_id EXCEPT ![kind] = @ + 1]
    /\ tx' = InsertRow(tx, kind, ret, key)
    /\ cache' = [cache EXCEPT ![kind] = CachePut(@, key, ret, MaxSize(kind))]
    /\ log' = Append(log, Event("insert", kind, key, ret))

AttackKey(row) ==
    <<get_datetime(row.time_start), get_datetime(row.time_end), UrlPrefix \o row.source>>

FieldValue(row, f) ==
    CASE f = 1 -> row.launch_place
      [] f = 2 -> row.target
      [] f = 3 -> row.model

(***************************************************************************)
(* import_dataset, one action per step.                                    *)
(***************************************************************************)
\* mutant: the first record of a chunk is taken from data_iter itself, not
\* from the islice
LoopHeadSkipsSlice ==
    /\ pc = "loop"
    /\ IF pos < Len(data_rows)
       THEN /\ data_row' = data_rows[pos + 1]
            /\ pos' = pos + 1
            /\ taken' = 1
            /\ n_rows' = 0
            /\ snap' = committed
            /\ log' = Append(log, [Event("read", "-", <<>>, 0) EXCEPT !.row = pos + 1])
            /\ pc' = "attack"
       ELSE /\ pc' = "done"
            /\ UNCHANGED <<data_row, pos, taken, n_rows, snap, log>>
    /\ UNCHANGED <<data_rows, block_size, run, i_block, attack_id, group_id, field,
                   names, idx, fk, cache, committed, tx, next_id, output, prev>>

\* while True: islice, next(data_block, None), break or enter `with db_conn`
LoopHead ==
    /\ pc = "loop"
    /\ IF block_size > 0 /\ pos < Len(data_rows)
       THEN /\ data_row' = data_rows[pos + 1]
            /\ pos' = pos + 1
            /\ taken' = 1
            /\ n_rows' = 0
            /\ snap' = committed
            /\ log' = Append(log, [Event("read", "-", <<>>, 0) EXCEPT !.row = pos + 1])
            /\ pc' = "attack"
       ELSE /\ pc' = "done"
            /\ UNCHANGED <<data_row, pos, taken, n_rows, snap, log>>
    /\ UNCHANGED <<data_rows, block_size, run, i_block, attack_id, group_id, field,
                   names, idx, fk, cache, committed, tx, next_id, output, prev>>

\* get_attack_id(db_conn, start_datetime=get_datetime(..), ...): cache or SELECT
GetAttackId ==
    /\ pc = "attack"
    /\ LET key == AttackKey(data_row)
       IN  IF key[1].ok /\ key[2].ok
           THEN \E ret \in 0..(next_id["attack"] - 1) :
                    /\ CachedCall("attack", key, ret)
                    /\ attack_id' = ret
                    /\ pc' = IF ret = 0 THEN "attack_ins" ELSE "group"
           ELSE /\ pc' = "exit_exc"
                /\ log' = Append(log, Event("raise", "attack", <<>>, 0))
                /\ UNCHANGED <<attack_id, cache>>
    /\ UNCHANGED <<data_rows, block_size, run, pos, taken, i_block, n_rows, data_row,
                   group_id, field, names, idx, fk, committed, tx, next_id, output,
                   snap, prev>>

\* get_attack_id: the INSERT of db_searcher
InsertAttack ==
    /\ pc = "attack_ins"
    /\ \E ret \in 1..next_id["attack"] :
           /\ SearcherInsert("attack", AttackKey(data_row), ret)
           /\ attack_id' = ret
    /\ pc' = "group"
    /\ UNCHANGED <<data_rows, block_size, run, pos, taken, i_block, n_rows, data_row,
                   group_id, field, names, idx, fk, committed, output, snap, prev>>

\* db_cur.execute(SQL_GROUPS_INSERT, ...); group_id = db_cur.fetchone()[0]
InsertGroup ==
    /\ pc = "group"
    /\ IF IsNumeric(data_row.launched) /\ IsNumeric(data_row.destroyed)
       THEN /\ group_id' = next_id["group"]
            /\ next_id' = [next_id EXCEPT !["group"] = @ + 1]
            /\ tx' = InsertGroupRow(tx, next_id["group"], attack_id,
                                    data_row.launched, data_row.destroyed)
            /\ log' = Append(log, Event("group", "group", <<>>, next_id["group"]))
            /\ field' = 1
            /\ names' = Split(FieldValue(data_row, 1), Sep)
            /\ idx' = 1
            /\ pc' = "lookup"
       ELSE /\ pc' = "exit_exc"
            /\ log' = Append(log, Event("raise", "group", <<>>, 0))
            /\ UNCHANGED <<group_id, next_id, tx, field, names, idx>>
    /\ UNCHANGED <<data_rows, block_size, run, pos, taken, i_block, n_rows, data_row,
                   attack_id, fk, cache, committed, output, snap, prev>>

\* get_place_id / get_target_id / get_missile_id: cache or SELECT
GetLookupId ==
    /\ pc = "lookup"
    /\ \E ret \in 0..(next_id[LookupKinds[field]] - 1) :
           /\ CachedCall(LookupKinds[field], names[idx], ret)
           /\ fk' = ret
           /\ pc' = IF ret = 0 THEN "lookup_ins" ELSE "assoc"
    /\ UNCHANGED <<data_rows, block_size, run, pos, taken, i_block, n_rows, data_row,
                   attack_id, group_id, field, names, idx, committed, tx, next_id,
                   output, snap, prev>>

\* get_place_id / get_target_id / get_missile_id: the INSERT of db_searcher
InsertLookup ==
    /\ pc = "lookup_ins"
    /\ \E ret \in 1..next_id[LookupKinds[field]] :
           /\ SearcherInsert(LookupKinds[field], names[idx], ret)
           /\ fk' = ret
    /\ pc' = "assoc"
    /\ UNCHANGED <<data_rows, block_size, run, pos, taken, i_block, n_rows, data_row,
                   attack_id, group_id, field, names, idx, committed, output, snap,
                   prev>>

\* db_cur.execute(SQL_GROUP_*_INSERT, ...), then the next name, field or the
\* end of the record (n_rows += 1)
InsertAssoc ==
    /\ pc = "assoc"
    /\ tx' = InsertAssocRow(tx, LookupKinds[field], group_id, fk)
    /\ log' = Append(log, Event("assoc", LookupKinds[field], names[idx], fk))
    /\ IF idx < Len(names)
       THEN /\ idx' = idx + 1
            /\ pc' = "lookup"
            /\ UNCHANGED <<field, names, n_rows>>
       ELSE IF field < Len(LookupKinds)
       THEN /\ field' = field + 1
            /\ names' = Split(FieldValue(data_row, field + 1), Sep)
            /\ idx' = 1
            /\ pc' = "lookup"
            /\ UNCHANGED n_rows
       ELSE /\ n_rows' = n_rows + 1
            /\ pc' = "next"
            /\ UNCHANGED <<field, names, idx>>
    /\ UNCHANGED <<data_rows, block_size, run, pos, taken, i_block, data_row,
                   attack_id, group_id, fk, cache, committed, next_id, output, snap,
                   prev>>

\* mutant: the islice bound is off by one
NextRowOffByOne ==
    /\ pc = "next"
    /\ IF taken <= block_size /\ pos < Len(data_rows)
       THEN /\ data_row' = data_rows[pos + 1]
            /\ pos' = pos + 1
            /\ taken' = taken + 1
            /\ log' = Append(log, [Event("read", "-", <<>>, 0) EXCEPT !.row = pos + 1])
            /\ pc' = "attack"
       ELSE /\ pc' = "exit_ok"
            /\ UNCHANGED <<data_row, pos, taken, log>>
    /\ UNCHANGED <<data_rows, block_size, run, i_block, n_rows, attack_id, group_id,
                   field, names, idx, fk, cache, committed, tx, next_id, output, snap,
                   prev>>

\* the for loop over chain((row_0,), data_block): the next record of the
\* islice, or the end of the chunk
NextRow ==
    /\ pc = "next"
    /\ IF taken < block_size /\ pos < Len(data_rows)
       THEN /\ data_row' = data_rows[pos + 1]
            /\ pos' = pos + 1
            /\ taken' = taken + 1
            /\ log' = Append(log, [Event("read", "-", <<>>, 0) EXCEPT !.row = pos + 1])
            /\ pc' = "attack"
       ELSE /\ pc' = "exit_ok"
            /\ UNCHANGED <<data_row, pos, taken, log>>
    /\ UNCHANGED <<data_rows, block_size, run, i_block, n_rows, attack_id, group_id,
                   field, names, idx, fk, cache, committed, tx, next_id, output, snap,
                   prev>>

\* `with db_conn` left without an exception: commit
Commit ==
    /\ pc = "exit_ok"
    /\ committed' = tx
    /\ log' = Append(log, Event("commit", "-", <<>>, 0))
    /\ pc' = "report"
    /\ UNCHANGED <<data_rows, block_size, run, pos, taken, i_block, n_rows, data_row,
                   attack_id, group_id, field, names, idx, fk, cache, tx, next_id,
                   output, snap, prev>>

\* mutant: the scope commits on an exception as it does on success
RollbackCommits ==
    /\ pc = "exit_exc"
    /\ committed' = tx
    /\ log' = Append(log, Event("rollback", "-", <<>>, 0))
    /\ pc' = "failed"
    /\ UNCHANGED <<data_rows, block_size, run, pos, taken, i_block, n_rows, data_row,
                   attack_id, group_id, field, names, idx, fk, cache, tx,
                   next_id, output, snap, prev>>

\* mutant: the exception is swallowed and the loop goes on with the next chunk
RollbackContinues ==
    /\ pc = "exit_exc"
    /\ tx' = committed
    /\ log' = Append(log, Event("rollback", "-", <<>>, 0))
    /\ pc' = "loop"
    /\ UNCHANGED <<data_rows, block_size, run, pos, taken, i_block, n_rows, data_row,
                   attack_id, group_id, field, names, idx, fk, cache, committed,
                   next_id, output, snap, prev>>

\* `with db_conn` left by an exception: rollback, and the exception leaves
\* import_dataset
Rollback ==
    /\ pc = "exit_exc"
    /\ tx' = committed
    /\ log' = Append(log, Event("rollback", "-", <<>>, 0))
    /\ pc' = "failed"
    /\ UNCHANGED <<data_rows, block_size, run, pos, taken, i_block, n_rows, data_row,
                   attack_id, group_id, field, names, idx, fk, cache, committed,
                   next_id, output, snap, prev>>

\* print(f"Block #{i_block} of {n_rows} rows just inserted"); i_block += 1
Report ==
    /\ pc = "report"
    /\ output' = Append(output, <<i_block, n_rows>>)
    /\ log' = Append(log, Event("report", "-", <<>>, n_rows))
    /\ i_block' = i_block + 1
    /\ pc' = "loop"
    /\ UNCHANGED <<data_rows, block_size, run, pos, taken, n_rows, data_row,
                   attack_id, group_id, field, names, idx, fk, cache, committed, tx,
                   next_id, snap, prev>>

\* the script is executed again on the same csv file: a new process, with
\* empty caches and a new connection to the same database
Rerun ==
    /\ pc \in {"done", "failed"}
    /\ run < MaxRuns
    /\ run' = run + 1
    /\ prev' = [pc |-> pc, store |-> committed]
    /\ pc' = "loop"
    /\ pos' = 0
    /\ taken' = 0
    /\ i_block' = 0
    /\ n_rows' = 0
    /\ data_row' = NoRow
    /\ attack_id' = 0
    /\ group_id' = 0
    /\ field' = 0
    /\ names' = <<>>
    /\ idx' = 0
    /\ fk' = 0
    /\ cache' = [k \in Kinds |-> <<>>]
    /\ tx' = committed
    /\ output' = <<>>
    /\ log' = <<>>
    /\ snap' = committed
    /\ UNCHANGED <<data_rows, block_size, committed, next_id>>

Next ==
    \/ LoopHead
    \/ GetAttackId
    \/ InsertAttack
    \/ InsertGroup
    \/ GetLookupId
    \/ InsertLookup
    \/ InsertAssoc
    \/ NextRow
    \/ Commit
    \/ Rollback
    \/ Report
    \/ Rerun

Spec == Init /\ [][Next]_vars

\* the importer's own steps: a process that has started keeps running
Step ==
    \/ LoopHead
    \/ GetAttackId
    \/ InsertAttack
    \/ InsertGroup
    \/ GetLookupId
    \/ InsertLookup
    \/ InsertAssoc
    \/ NextRow
    \/ Commit
    \/ Rollback
    \/ Report

\* the script is single-threaded and blocking: it runs until it returns or raises
FairSpec == Init /\ [][Next]_vars /\ WF_vars(Step)

(***************************************************************************)
(* Reading the history.                                                    *)
(***************************************************************************)
LogIdx == 1..Len(log)

\* the events at which a resolver returned a primary key
IsReturn(e) == e.ev \in {"hit", "insert"} \/ (e.ev = "select" /\ e.id # 0)

SameKey(e, f) == e.kind = f.kind /\ e.key = f.key

\* the number of indices of a sequence that satisfy a test
Count(q, Test(_)) == Cardinality({i \in 1..Len(q) : Test(q[i])})

\* a record parses and its counts are numeric
GoodRecord(r) ==
    /\ get_datetime(r.time_start).ok
    /\ get_datetime(r.time_end).ok
    /\ IsNumeric(r.launched)
    /\ IsNumeric(r.destroyed)

AllGood == \A i \in 1..Len(data_rows) : GoodRecord(data_rows[i])

(***************************************************************************)
(* C1  Batch atomicity.  After a chunk has failed, no row written while    *)
(* that chunk was processed (lookup and event-period rows created by the   *)
(* resolvers, fact-group rows, association rows) is in the store, and the  *)
(* store is exactly what the previously committed chunks left.             *)
(***************************************************************************)
RowVisible(store, e) ==
    CASE e.ev = "insert" -> [id |-> e.id, key |-> e.key] \in store.rows[e.kind]
      [] e.ev = "group" -> \E g \in store.groups : g.id = e.id
      [] e.ev = "assoc" ->
            \E j \in 1..Len(store.assoc[e.kind]) :
                store.assoc[e.kind][j] = [group_id |-> e.group, fk |-> e.id]

C1_BatchAtomicity ==
    pc = "failed" =>
        /\ tx = snap
        /\ committed = snap
        /\ \A i \in LogIdx :
               log[i].ev \in {"insert", "group", "assoc"} =>
                   /\ RowVisible(tx, log[i]) <=> (log[i].block < i_block)
                   /\ RowVisible(committed, log[i]) <=> (log[i].block < i_block)

\* a chunk failed after an earlier chunk was committed, and had written rows
C1_Witness ==
    /\ pc = "failed"
    /\ i_block >= 1
    /\ \E i \in LogIdx : log[i].ev = "insert" /\ log[i].block = i_block
    /\ \E i \in LogIdx : log[i].ev = "assoc" /\ log[i].block < i_block

(***************************************************************************)
(* C2  Chunking correctness.  With block_size B >= 1 and N records none of *)
(* which fails, the run commits ceil(N/B) times, every chunk but the last  *)
(* holds B consecutive records, the last holds N mod B (B when that is 0), *)
(* every record is processed exactly once, and the driver terminates.      *)
(***************************************************************************)
CeilDiv(n, b) == (n + b - 1) \div b

LastChunk(n, b) == IF n % b = 0 THEN b ELSE n % b

\* the records of which a given kind of event was logged, in log order
RowsOf(ev) ==
    LET F[i \in 0..Len(log)] ==
            IF i = 0 THEN <<>>
            ELSE IF log[i].ev = ev THEN Append(F[i - 1], log[i].row) ELSE F[i - 1]
    IN  F[Len(log)]

ChunkingAtDone ==
    (pc = "done" /\ block_size >= 1) =>
        LET N == Len(data_rows)
            B == block_size
            C == CeilDiv(N, B)
        IN  /\ Count(log, LAMBDA e : e.ev = "commit") = C
            /\ Len(output) = C
            /\ \A c \in 1..C :
                   output[c] = <<c - 1, IF c < C THEN B ELSE LastChunk(N, B)>>
            /\ RowsOf("read") = [i \in 1..N |-> i]
            /\ RowsOf("group") = [i \in 1..N |-> i]
            /\ \A i \in LogIdx :
                   log[i].ev \in {"read", "group"} =>
                       log[i].block = (log[i].row - 1) \div B

C2_Chunking ==
    /\ []ChunkingAtDone
    /\ [](pc = "loop" /\ block_size >= 1 /\ AllGood => <>(pc = "done"))

\* a run of three records in chunks of two has ended: two commits, the last of one
C2_Witness ==
    /\ pc = "done"
    /\ Len(data_rows) = 3
    /\ block_size = 2
    /\ output = <<<<0, 2>>, <<1, 1>>>>

(***************************************************************************)
(* C3  Idempotent lookup.  Within one run, every resolution of the same    *)
(* (kind, natural key) returns the same primary key, whatever was resolved *)
(* or evicted in between, and the INSERT for it is executed at most once.  *)
(***************************************************************************)
C3_IdempotentLookup ==
    LET returns == {i \in LogIdx : IsReturn(log[i])}
    IN  \A j \in returns : \A i \in returns :
            (i < j /\ SameKey(log[i], log[j])) =>
                /\ log[j].id = log[i].id
                /\ log[j].ev # "insert"

\* a key was inserted, evicted from its cache, and resolved again by a SELECT
\* that returned the key's identity
C3_Witness ==
    \E i \in LogIdx : \E j \in LogIdx :
        /\ i < j
        /\ log[i].ev = "insert"
        /\ log[j].ev = "select"
        /\ log[j].id = log[i].id
        /\ SameKey(log[i], log[j])
        /\ log[i].kind = "place"

(***************************************************************************)
(* C4  Natural-key uniqueness.  In every state of the store, committed or  *)
(* inside the open transaction, no two rows of attacks share (start, end,  *)
(* source) and no two rows of launch_places, potential_targets or missiles *)
(* share a name.                                                           *)
(***************************************************************************)
UniqueKeys(store) ==
    \A k \in Kinds : \A r1 \in store.rows[k] : \A r2 \in store.rows[k] :
        r1.key = r2.key => r1 = r2

C4_NaturalKeyUnique == UniqueKeys(tx) /\ UniqueKeys(committed)

\* a second execution, after one whose last chunk was rolled back, found the
\* event period an earlier chunk committed and inserted again, under a new
\* primary key, the one the rolled-back chunk had inserted
C4_Witness ==
    /\ run = 2
    /\ prev.pc = "failed"
    /\ prev.store # EmptyStore
    /\ \E i \in LogIdx : log[i].ev = "select" /\ log[i].id # 0 /\ log[i].kind = "attack"
    /\ \E i \in LogIdx : log[i].ev = "insert" /\ log[i].kind = "attack" /\ log[i].id > 2
    /\ Cardinality(tx.rows["attack"]) = 2

(***************************************************************************)
(* C5  Shared lookup reference.  When a successful run has ended, every    *)
(* launch place named by its records has exactly one launch_places row,    *)
(* inserted at most once by the run, and each record naming it has one     *)
(* group_launch_places row per occurrence of the name, from the record's   *)
(* fact group to that row: two records naming a place once give one place  *)
(* row and two association rows.                                           *)
(***************************************************************************)
PlaceNames(r) == Split(r.launch_place, Sep)

\* the fact group the run inserted for record r
GroupOf(r) == (CHOOSE i \in LogIdx : log[i].ev = "group" /\ log[i].row = r)

Occurrences(q, x) == Cardinality({i \in 1..Len(q) : q[i] = x})

\* every <<record, position>> at which the input names a launch place
NamePositions ==
    UNION {{r} \X (1..Len(PlaceNames(data_rows[r]))) : r \in 1..Len(data_rows)}

C5_SharedPlace ==
    (pc = "done" /\ block_size >= 1) =>
        \A r1 \in 1..Len(data_rows) : \A n1 \in 1..Len(PlaceNames(data_rows[r1])) :
            LET name == PlaceNames(data_rows[r1])[n1]
                found == {p \in committed.rows["place"] : p.key = name}
                groups == {log[i].id : i \in {j \in LogIdx : log[j].ev = "group"}}
                links == {i \in 1..Len(committed.assoc["place"]) :
                             /\ committed.assoc["place"][i].group_id \in groups
                             /\ \E p \in found : committed.assoc["place"][i].fk = p.id}
                total == Cardinality({<<r, n>> \in NamePositions :
                                          PlaceNames(data_rows[r])[n] = name})
            IN  /\ Cardinality(found) = 1
                /\ Count(log, LAMBDA e : e.ev = "insert" /\ e.kind = "place"
                                          /\ e.key = name) <= 1
                /\ Cardinality(links) = total
                /\ \A r \in 1..Len(data_rows) :
                       Cardinality({i \in links :
                           committed.assoc["place"][i].group_id = log[GroupOf(r)].id})
                       = Occurrences(PlaceNames(data_rows[r]), name)

\* two records in different chunks name place x once each: one row, two links
C5_Witness ==
    /\ pc = "done"
    /\ run = 1
    /\ block_size = 1
    /\ Len(data_rows) = 2
    /\ data_rows[1] # data_rows[2]
    /\ Cardinality(committed.rows["place"]) = 2
    /\ Len(committed.assoc["place"]) = 3
    /\ Cardinality({i \in 1..3 : \E p \in committed.rows["place"] :
                       p.key = <<"x">> /\ committed.assoc["place"][i].fk = p.id}) = 2

(***************************************************************************)
(* C6  Cache eviction bound.  The place, target and missile caches never   *)
(* hold more than their capacity; what they hold are the most recently     *)
(* resolved names, so that the entry evicted at full capacity is the least *)
(* recently used one; and a name resolved again after its eviction gets    *)
(* the identity it had, from the store, without a second INSERT.           *)
(***************************************************************************)
Lookups == {"place", "target", "missile"}

\* the events of this run at which a resolver returned an identity
Returns(kind) == {i \in LogIdx : log[i].kind = kind /\ IsReturn(log[i])}

\* the names a resolver has returned an identity for in this run
Resolved(kind) == {log[i].key : i \in Returns(kind)}

Min(a, b) == IF a <= b THEN a ELSE b

C6_CacheEviction ==
    \A k \in Lookups :
        LET c == cache[k]
            returns == Returns(k)
            resolved == {log[i].key : i \in returns}
            \* the last event at which the resolver returned the identity of a name
            lastUse == [key \in resolved |->
                           CHOOSE i \in returns :
                               /\ log[i].key = key
                               /\ \A j \in returns : log[j].key = key => j <= i]
        IN  /\ Len(c) <= LookupCacheMax
            /\ Len(c) = Min(LookupCacheMax, Cardinality(resolved))
            /\ \A i \in 1..Len(c) :
                   /\ c[i][1] \in resolved
                   /\ c[i][2] = log[lastUse[c[i][1]]].id
                   /\ \A j \in 1..Len(c) : i < j => lastUse[c[i][1]] < lastUse[c[j][1]]
                   /\ \A key \in resolved :
                          ~CacheHas(c, key) => lastUse[key] < lastUse[c[i][1]]
            /\ \A j \in returns : \A i \in returns :
                   (i < j /\ log[i].key = log[j].key) =>
                       log[j].ev \in {"hit", "select"} /\ log[j].id = log[i].id

\* the place cache is full, a name was evicted from it, and the evicted name
\* was resolved again: found in the store under the identity it was given
C6_Witness ==
    /\ Len(cache["place"]) = LookupCacheMax
    /\ Cardinality(Resolved("place")) > LookupCacheMax
    /\ \E i \in LogIdx : \E j \in LogIdx :
           /\ i < j
           /\ log[i].kind = "place"
           /\ IsReturn(log[i])
           /\ log[j].ev = "select"
           /\ log[j].id = log[i].id
           /\ SameKey(log[i], log[j])

(***************************************************************************)
(* C7  Event-period resolutions cached without bound.  Once get_attack_id  *)
(* has resolved a (start, end, source) tuple in a run, every later         *)
(* resolution of that tuple in the run is answered by the cache: it issues *)
(* no SELECT and no INSERT.                                                *)
(***************************************************************************)
C7_AttackNeverRequeried ==
    \A i \in LogIdx : \A j \in LogIdx :
        (/\ i < j
         /\ log[i].kind = "attack"
         /\ IsReturn(log[i])
         /\ log[j].ev \in {"hit", "select", "insert"}
         /\ SameKey(log[i], log[j])) =>
            log[j].ev = "hit"

(***************************************************************************)
(* C8  Multi-value splitting.  For every record processed and each of its  *)
(* launch_place, target and model fields, a value with k occurrences of    *)
(* " and " (counted left to right, without overlap) gives k + 1 names;     *)
(* each name is resolved by the field's resolver and gets one association  *)
(* row, from the record's group to the identity resolved, in the order of  *)
(* the names; the rows are in the store unless the record's chunk was      *)
(* rolled back.                                                            *)
(***************************************************************************)
RECURSIVE CountSep(_, _)
\* str.count(' and '): the occurrences of the separator from position i on
CountSep(s, i) ==
    IF i + Len(Sep) - 1 > Len(s) THEN 0
    ELSE IF SubSeq(s, i, i + Len(Sep) - 1) = Sep THEN 1 + CountSep(s, i + Len(Sep))
    ELSE CountSep(s, i + 1)

RECURSIVE JoinAll(_)
\* ' and '.join(names)
JoinAll(q) == IF Len(q) = 1 THEN q[1] ELSE q[1] \o Sep \o JoinAll(Tail(q))

\* record r has been processed to its end
Complete(r) ==
    \/ r < pos
    \/ r = pos /\ pc \in {"next", "exit_ok", "report", "loop", "done"}

\* the association events of record r for a kind, in log order
AssocEvents(r, kind) ==
    LET F[i \in 0..Len(log)] ==
            IF i = 0 THEN <<>>
            ELSE IF log[i].ev = "assoc" /\ log[i].row = r /\ log[i].kind = kind
                 THEN Append(F[i - 1], i) ELSE F[i - 1]
    IN  F[Len(log)]

\* the chunk of record r was rolled back
RolledBack(r) == pc = "failed" /\ log[GroupOf(r)].block = i_block

C8_MultiValueSplit ==
    \A r \in 1..pos : Complete(r) =>
        \A f \in 1..Len(LookupKinds) :
            LET kind == LookupKinds[f]
                value == FieldValue(data_rows[r], f)
                evs == AssocEvents(r, kind)
                g == log[GroupOf(r)].id
                links == SelectSeq(tx.assoc[kind], LAMBDA row : row.group_id = g)
            IN  /\ Len(evs) = CountSep(value, 1) + 1
                /\ JoinAll([n \in 1..Len(evs) |-> log[evs[n]].key]) = value
                /\ \A n \in 1..Len(evs) :
                       /\ Find(log[evs[n]].key, Sep, 1) = 0
                       /\ IsReturn(log[evs[n] - 1])
                       /\ SameKey(log[evs[n] - 1], log[evs[n]])
                       /\ log[evs[n] - 1].id = log[evs[n]].id
                       /\ RolledBack(r) \/
                            [id |-> log[evs[n]].id, key |-> log[evs[n]].key] \in tx.rows[kind]
                /\ RolledBack(r) \/
                     links = [n \in 1..Len(evs) |-> [group_id |-> g, fk |-> log[evs[n]].id]]

\* a record with two separators in its model field, one in its launch_place
\* field, none in its target field, and a record whose target field holds
\* overlapping separators have been processed
C8_Witness ==
    \E r \in 1..pos : \E q \in 1..pos :
        /\ Complete(r)
        /\ Complete(q)
        /\ CountSep(data_rows[r].model, 1) = 2
        /\ Len(AssocEvents(r, "missile")) = 3
        /\ CountSep(data_rows[r].target, 1) = 0
        /\ Len(AssocEvents(r, "target")) = 1
        /\ CountSep(data_rows[q].launch_place, 1) = 1
        /\ Len(AssocEvents(q, "place")) = 2
        /\ Len(AssocEvents(q, "target")) = 2
        /\ Len(data_rows[q].target) = 11

(***************************************************************************)
(* C9  Reporting and stop-on-failure.  Every report line directly follows  *)
(* the commit of its chunk and carries the number of records processed in  *)
(* that chunk, every commit is followed by its report line; a chunk that   *)
(* raises is rolled back without a report line, the exception leaves       *)
(* import_dataset, and nothing more is read, processed or committed.       *)
(***************************************************************************)
EventsOfBlock(ev, b) == {i \in LogIdx : log[i].ev = ev /\ log[i].block = b}

C9_ReportAndStop ==
    /\ Len(output) = Count(log, LAMBDA e : e.ev = "report")
    /\ \A i \in LogIdx :
           /\ log[i].ev = "report" =>
                  /\ i > 1
                  /\ log[i - 1].ev = "commit"
                  /\ log[i - 1].block = log[i].block
                  /\ output[log[i].block + 1] = <<log[i].block, log[i].id>>
                  /\ log[i].id = Cardinality(EventsOfBlock("read", log[i].block))
                  /\ log[i].id = Cardinality(EventsOfBlock("group", log[i].block))
                  /\ Cardinality(EventsOfBlock("report", log[i].block)) = 1
           /\ log[i].ev = "commit" =>
                  IF i = Len(log) THEN pc = "report" ELSE log[i + 1].ev = "report"
           /\ log[i].ev = "raise" =>
                  /\ EventsOfBlock("report", log[i].block) = {}
                  /\ EventsOfBlock("commit", log[i].block) = {}
                  /\ pos = log[i].row
                  /\ IF i = Len(log) THEN pc = "exit_exc"
                     ELSE /\ i + 1 = Len(log)
                          /\ log[i + 1].ev = "rollback"
                          /\ pc = "failed"
    /\ pc = "failed" => Len(log) > 1 /\ log[Len(log)].ev = "rollback"

\* the second chunk failed after the first was committed and reported, and
\* a record of the source was never read
C9_Witness ==
    /\ pc = "failed"
    /\ output = <<<<0, 1>>>>
    /\ pos = 2
    /\ Len(data_rows) = 3

(***************************************************************************)
(* C10  Re-run.  An execution over the same records on a store that holds  *)
(* the result of a complete execution adds no row to attacks,              *)
(* launch_places, potential_targets or missiles, and adds one fact-group   *)
(* row per record and one association row per name occurrence.             *)
(***************************************************************************)
RECURSIVE NameCount(_, _)
\* the names in field f of the first n records
NameCount(f, n) ==
    IF n = 0 THEN 0
    ELSE NameCount(f, n - 1) + CountSep(FieldValue(data_rows[n], f), 1) + 1

IsPrefix(p, q) == Len(p) <= Len(q) /\ SubSeq(q, 1, Len(p)) = p

C10_Rerun ==
    (run >= 2 /\ prev.pc = "done" /\ block_size >= 1) =>
        /\ tx.rows = prev.store.rows
        /\ committed.rows = prev.store.rows
        /\ \A i \in LogIdx : log[i].ev # "insert"
        /\ pc = "done" =>
               /\ prev.store.groups \subseteq committed.groups
               /\ Cardinality(committed.groups) =
                      Cardinality(prev.store.groups) + Len(data_rows)
               /\ \A f \in 1..Len(LookupKinds) :
                      /\ IsPrefix(prev.store.assoc[LookupKinds[f]],
                                  committed.assoc[LookupKinds[f]])
                      /\ Len(committed.assoc[LookupKinds[f]]) =
                             Len(prev.store.assoc[LookupKinds[f]])
                             + NameCount(f, Len(data_rows))

\* a second execution over three records has ended: six fact groups, and the
\* three launch places of the first execution
C10_Witness ==
    /\ run = 2
    /\ prev.pc = "done"
    /\ pc = "done"
    /\ Len(data_rows) = 3
    /\ Cardinality(committed.groups) = 6
    /\ Cardinality(prev.store.groups) = 3
    /\ Cardinality(committed.rows["place"]) = 3
    /\ Len(committed.assoc["place"]) > Len(prev.store.assoc["place"])

(***************************************************************************)
(* C11  Processing order.  The statements of a run are issued record by    *)
(* record in source order, and within a record in the order event-period   *)
(* resolution, fact-group insert, launch places, targets, missiles; an     *)
(* association row is inserted only when the fact-group row and the lookup *)
(* row it references are in the open transaction.                          *)
(***************************************************************************)
IsStatement(e) == e.ev \in {"hit", "select", "insert", "group", "assoc"}

\* the place of an event in the fixed order of a record's statements
Phase(e) ==
    CASE e.kind = "attack" -> 1
      [] e.kind = "group" -> 2
      [] e.kind = "place" -> 3
      [] e.kind = "target" -> 4
      [] e.kind = "missile" -> 5

\* the statements and resolutions of the run, in log order
Statements ==
    LET F[i \in 0..Len(log)] ==
            IF i = 0 THEN <<>>
            ELSE IF IsStatement(log[i]) THEN Append(F[i - 1], log[i]) ELSE F[i - 1]
    IN  F[Len(log)]

C11_ProcessingOrder ==
    LET st == Statements
    IN  /\ \A i \in 1..(Len(st) - 1) :
               \/ st[i].row < st[i + 1].row
               \/ st[i].row = st[i + 1].row /\ Phase(st[i]) <= Phase(st[i + 1])
        /\ \A i \in 1..Len(st) :
               /\ st[i].kind \in {"place", "target", "missile"} =>
                      \E j \in 1..(i - 1) :
                          /\ st[j].ev = "group"
                          /\ st[j].row = st[i].row
                          /\ st[i].ev = "assoc" => st[i].group = st[j].id
               /\ st[i].ev = "group" =>
                      \E j \in 1..(i - 1) :
                          /\ st[j].kind = "attack"
                          /\ IsReturn(st[j])
                          /\ st[j].row = st[i].row
        /\ pc = "group" =>
               \E a \in tx.rows["attack"] : a.id = attack_id /\ a.key = AttackKey(data_row)
        /\ pc = "assoc" =>
               /\ \E g \in tx.groups : g.id = group_id /\ g.attack_id = attack_id
               /\ [id |-> fk, key |-> names[idx]] \in tx.rows[LookupKinds[field]]

\* the second record of a run is at its last association: every phase of
\* two records is in the log
C11_Witness ==
    /\ pc = "assoc"
    /\ pos = 2
    /\ field = 3
    /\ idx = Len(names)
    /\ Len(names) = 3
    /\ \A ph \in 1..5 : \A r \in 1..2 :
           \E i \in LogIdx : IsStatement(log[i]) /\ log[i].row = r /\ Phase(log[i]) = ph

(***************************************************************************)
(* The importer beside a concurrent external writer.  The persisted schema *)
(* puts a uniqueness constraint on the natural key of attacks,             *)
(* launch_places, potential_targets and missiles.  The connection runs at  *)
(* PostgreSQL's default isolation level, READ COMMITTED: what another      *)
(* session commits is seen by the statements that follow.                  *)
(***************************************************************************)
\* the uniqueness constraint rejects an INSERT of a natural key that a row holds
UniqueViolation(store, kind, key) == \E r \in store.rows[kind] : r.key = key

\* the resolver call that is about to run its SELECT, or has run it and
\* found nothing
PendingKind == IF pc \in {"attack", "attack_ins"} THEN "attack" ELSE LookupKinds[field]

PendingKey == IF pc \in {"attack", "attack_ins"} THEN AttackKey(data_row) ELSE names[idx]

\* another session inserts and commits a row with the natural key the
\* importer is resolving: before the resolver's SELECT, or between a SELECT
\* that found nothing and the INSERT (once in a run)
ExternalWriter ==
    /\ pc \in {"attack", "lookup", "attack_ins", "lookup_ins"}
    /\ \A i \in LogIdx : log[i].ev # "external"
    /\ PendingKind = "attack" => PendingKey[1].ok /\ PendingKey[2].ok
    /\ ~UniqueViolation(tx, PendingKind, PendingKey)
    /\ tx' = InsertRow(tx, PendingKind, next_id[PendingKind], PendingKey)
    /\ committed' = InsertRow(committed, PendingKind, next_id[PendingKind], PendingKey)
    /\ next_id' = [next_id EXCEPT ![PendingKind] = @ + 1]
    /\ log' = Append(log, Event("external", PendingKind, PendingKey, next_id[PendingKind]))
    /\ UNCHANGED <<data_rows, block_size, run, pc, pos, taken, i_block, n_rows,
                   data_row, attack_id, group_id, field, names, idx, fk, cache,
                   output, snap, prev>>

\* cur.execute(sql_insert, vals) raises on the constraint; db_searcher has no
\* handler, nor has import_dataset: the exception reaches `with db_conn`
InsertRaises ==
    /\ pc \in {"attack_ins", "lookup_ins"}
    /\ UniqueViolation(tx, PendingKind, PendingKey)
    /\ pc' = "exit_exc"
    /\ log' = Append(log, Event("raise", PendingKind, PendingKey, 0))
    /\ UNCHANGED <<data_rows, block_size, run, pos, taken, i_block, n_rows, data_row,
                   attack_id, group_id, field, names, idx, fk, cache, committed, tx,
                   next_id, output, snap, prev>>

\* get_attack_id: the INSERT of db_searcher, on a table with the constraint
InsertAttackChecked ==
    \/ InsertRaises /\ pc = "attack_ins"
    \/ InsertAttack /\ ~UniqueViolation(tx, "attack", AttackKey(data_row))

\* get_place_id / get_target_id / get_missile_id: the INSERT of db_searcher,
\* on a table with the constraint
InsertLookupChecked ==
    \/ InsertRaises /\ pc = "lookup_ins"
    \/ InsertLookup /\ ~UniqueViolation(tx, LookupKinds[field], names[idx])

NextRace ==
    \/ LoopHead
    \/ GetAttackId
    \/ InsertAttackChecked
    \/ InsertGroup
    \/ GetLookupId
    \/ InsertLookupChecked
    \/ InsertAssoc
    \/ NextRow
    \/ Commit
    \/ Rollback
    \/ Report
    \/ ExternalWriter

SpecRace == Init /\ [][NextRace]_vars

(***************************************************************************)
(* C12  Race with an external writer.  When another session commits a row  *)
(* with natural key K after a resolver's SELECT for K found nothing and    *)
(* before its INSERT, the INSERT raises, nothing is returned or cached for *)
(* K, the exception leaves the resolver and the chunk is rolled back, and  *)
(* the store holds exactly one row with key K, the external one; no table  *)
(* ever holds two rows with one natural key, and every identity a resolver *)
(* returns for a key the external writer wrote is that of the writer's row.*)
(***************************************************************************)
\* the external commit at log[i] fell between a SELECT that found nothing
\* and the INSERT for the same key
Raced(i) ==
    /\ log[i].ev = "external"
    /\ i > 1
    /\ log[i - 1].ev = "select"
    /\ log[i - 1].id = 0
    /\ SameKey(log[i - 1], log[i])

RowsWithKey(store, kind, key) == {r \in store.rows[kind] : r.key = key}

C12_ExternalRace ==
    /\ UniqueKeys(tx)
    /\ UniqueKeys(committed)
    /\ \A i \in LogIdx : log[i].ev = "external" =>
           /\ \A j \in LogIdx :
                  (j > i /\ IsReturn(log[j]) /\ SameKey(log[i], log[j])) =>
                      log[j].id = log[i].id /\ log[j].ev # "insert"
           /\ Raced(i) =>
                  /\ RowsWithKey(tx, log[i].kind, log[i].key)
                         = {[id |-> log[i].id, key |-> log[i].key]}
                  /\ RowsWithKey(committed, log[i].kind, log[i].key)
                         = {[id |-> log[i].id, key |-> log[i].key]}
                  /\ ~CacheHas(cache[log[i].kind], log[i].key)
                  /\ \/ i = Len(log) /\ pc \in {"attack_ins", "lookup_ins"}
                     \/ /\ i + 1 = Len(log)
                        /\ log[i + 1].ev = "raise"
                        /\ SameKey(log[i], log[i + 1])
                        /\ pc = "exit_exc"
                     \/ /\ i + 2 = Len(log)
                        /\ log[i + 1].ev = "raise"
                        /\ log[i + 2].ev = "rollback"
                        /\ pc = "failed"
                        /\ tx = committed
                        /\ \A j \in LogIdx :
                               log[j].ev \in {"insert", "group", "assoc"} =>
                                   (RowVisible(tx, log[j]) <=> (log[j].block < i_block))

\* the race happened in the second chunk, on a launch place, after the chunk
\* had written rows, and the chunk was rolled back
C12_Witness ==
    /\ pc = "failed"
    /\ i_block = 1
    /\ \E i \in LogIdx : Raced(i) /\ log[i].kind = "place"
    /\ \E j \in LogIdx : log[j].ev = "group" /\ log[j].block = 1
    /\ \E j \in LogIdx : log[j].ev = "insert" /\ log[j].block = 1
    /\ \E j \in LogIdx : log[j].ev = "assoc" /\ log[j].block = 0

(***************************************************************************)
(* import_dataset called again in the same process, on the same            *)
(* connection: the resolvers' caches are module-level and survive the      *)
(* call, whether it returned or raised.  The schema's foreign keys         *)
(* (attack_groups to attacks, the association tables to attack_groups and  *)
(* the lookup tables) reject a row that references no row.                 *)
(***************************************************************************)
CallAgain ==
    /\ pc \in {"done", "failed"}
    /\ run < MaxRuns
    /\ run' = run + 1
    /\ prev' = [pc |-> pc, store |-> committed]
    /\ pc' = "loop"
    /\ pos' = 0
    /\ taken' = 0
    /\ i_block' = 0
    /\ n_rows' = 0
    /\ data_row' = NoRow
    /\ attack_id' = 0
    /\ group_id' = 0
    /\ field' = 0
    /\ names' = <<>>
    /\ idx' = 0
    /\ fk' = 0
    /\ output' = <<>>
    /\ log' = <<>>
    /\ snap' = committed
    /\ UNCHANGED <<data_rows, block_size, cache, committed, tx, next_id>>

\* the row a foreign key points at is in the open transaction
HasRow(store, kind, id) == \E r \in store.rows[kind] : r.id = id

\* a statement rejected by a foreign key: the exception reaches `with db_conn`
ForeignKeyRaises(kind) ==
    /\ pc' = "exit_exc"
    /\ log' = Append(log, Event("raise", kind, <<>>, 0))
    /\ UNCHANGED <<data_rows, block_size, run, pos, taken, i_block, n_rows, data_row,
                   attack_id, group_id, field, names, idx, fk, cache, committed, tx,
                   next_id, output, snap, prev>>

\* SQL_GROUPS_INSERT on a table with the foreign key to attacks
InsertGroupChecked ==
    \/ InsertGroup /\ HasRow(tx, "attack", attack_id)
    \/ /\ pc = "group"
       /\ ~HasRow(tx, "attack", attack_id)
       /\ ForeignKeyRaises("group")

\* SQL_GROUP_*_INSERT on a table with the foreign key to its lookup table
InsertAssocChecked ==
    \/ InsertAssoc /\ HasRow(tx, LookupKinds[field], fk)
    \/ /\ pc = "assoc"
       /\ ~HasRow(tx, LookupKinds[field], fk)
       /\ ForeignKeyRaises(LookupKinds[field])

NextCalls ==
    \/ LoopHead
    \/ GetAttackId
    \/ InsertAttack
    \/ InsertGroupChecked
    \/ GetLookupId
    \/ InsertLookup
    \/ InsertAssocChecked
    \/ NextRow
    \/ Commit
    \/ Rollback
    \/ Report
    \/ CallAgain

SpecCalls == Init /\ [][NextCalls]_vars

(***************************************************************************)
(* C13  Cache/store consistency across aborts.  In every call of           *)
(* import_dataset in one process, also after a call whose chunk was rolled *)
(* back, the identity a resolver has just returned is that of a row with   *)
(* the resolved key in the open transaction.                               *)
(***************************************************************************)
C13_ReturnedIdentityExists ==
    /\ pc = "group" =>
           [id |-> attack_id, key |-> AttackKey(data_row)] \in tx.rows["attack"]
    /\ pc = "assoc" =>
           [id |-> fk, key |-> names[idx]] \in tx.rows[LookupKinds[field]]

(***************************************************************************)
(* C14  block_size = 0.  Whatever the input, import_dataset ends at once:  *)
(* its first step leaves the loop, no record is consumed, no transaction   *)
(* scope is entered, no statement is issued, no line is printed, and the   *)
(* store, the sequences and the caches stay as they were.                  *)
(***************************************************************************)
NothingDone ==
    block_size = 0 =>
        /\ pc \in {"loop", "done"}
        /\ pos = 0
        /\ taken = 0
        /\ log = <<>>
        /\ output = <<>>
        /\ i_block = 0
        /\ tx = EmptyStore
        /\ committed = EmptyStore
        /\ cache = [k \in Kinds |-> <<>>]
        /\ next_id = [t \in Tables |-> 1]

C14_ZeroBlockSize ==
    /\ []NothingDone
    /\ [][(block_size = 0 /\ pc = "loop") => pc' = "done"]_vars
    /\ [](block_size = 0 => <>(pc = "done"))

\* a call with three records and block_size 0 has returned
C14_Witness ==
    /\ block_size = 0
    /\ pc = "done"
    /\ Len(data_rows) = 3
    /\ pos = 0

=============================================================================
